---- MODULE Spec2Model ----
(***************************************************************************)
(* Model of xdp/xmmDataProcessing.py: eight functions that each build      *)
(* argument lists and hand them to subprocess.run(..., check=True), plus   *)
(* the archive download.  A function body is modelled statement by         *)
(* statement; an external process is spawned and exits in two steps, with  *)
(* a nondeterministic exit status.                                         *)
(***************************************************************************)
EXTENDS Naturals, Sequences, FiniteSets, TLC

VARIABLES
    script,   \* the calls the calling program makes, in order
    ci,       \* index in script of the call in progress (Len+1: all returned)
    pc,       \* 0: call not entered yet; k: statement k of the body is next
    phase,    \* "exec": interpreting statements; "wait": blocked in subprocess.run
    locals,   \* the local variables command and farith_command
    running,  \* child processes spawned and not yet exited
    log,      \* invocations that have finished, in order, with exit status
    built,    \* argument lists constructed by assignments, in order
    env,      \* os.environ of the calling process (SAS_CCF, SAS_ODF only)
    status    \* "run", "raised" (an exception propagated), "done"

vars == <<script, ci, pc, phase, locals, running, log, built, env, status>>

\* ------------------------------------------------------------------ bounds

\* Number of calls of a free-order script (SpecAny).
MaxCalls == 2

\* ------------------------------------------------------------------ values

None == <<>>
NoCwd == "<inherit>"
Unset == "<unset>"
Pointers == {"SAS_CCF", "SAS_ODF"}

\* The inputs of one pipeline run: every parameter of every function.
BaseInputs ==
    [ observation_id    |-> "0087940101",
      save_path         |-> "/data",
      odf_directory     |-> "/data/odf",
      ccf_directory     |-> "/data/ccf",
      cif_directory     |-> "/data/ccf",
      em_directory      |-> "/data/em",
      ep_directory      |-> "/data/ep",
      gtis_directory    |-> "/data/gti",
      images_directory  |-> "/data/img",
      event_file        |-> "ev.fits",
      expression        |-> "PI>150",
      gtiset_name       |-> "gti",
      image_name        |-> "image",
      imageset_name     |-> "imageset",
      oot_image_name    |-> "oot_image",
      oot_imageset_name |-> "oot_imageset",
      oot               |-> TRUE,
      oot_flag          |-> FALSE ]

\* A call: the function, and the inputs a script varies.
Call(fn, odf, oot, oot_flag) ==
    [fn |-> fn, odf |-> odf, oot |-> oot, oot_flag |-> oot_flag]

\* The arguments of a call.
Args(call) ==
    [BaseInputs EXCEPT !.odf_directory = call.odf, !.oot = call.oot,
                       !.oot_flag = call.oot_flag]

\* ------------------------------------------------------------- statements

\* <var> = val
Set(var, val) ==
    [op |-> "set", var |-> var, val |-> val, cwd |-> NoCwd, shell |-> FALSE,
     cond |-> TRUE, skip |-> 0]

\* <var> += val
Extend(var, val) ==
    [op |-> "extend", var |-> var, val |-> val, cwd |-> NoCwd, shell |-> FALSE,
     cond |-> TRUE, skip |-> 0]

\* if cond: <the next skip statements>
If(cond, skip) ==
    [op |-> "if", var |-> "", val |-> None, cwd |-> NoCwd, shell |-> FALSE,
     cond |-> cond, skip |-> skip]

\* subprocess.run(<var>, cwd=cwd, shell=shell, check=True)
Run(var, cwd, shell) ==
    [op |-> "run", var |-> var, val |-> None, cwd |-> cwd, shell |-> shell,
     cond |-> TRUE, skip |-> 0]

\* a library call (archive client, tarfile) that returns or raises
Lib(name, args) ==
    [op |-> "lib", var |-> name, val |-> args, cwd |-> NoCwd, shell |-> FALSE,
     cond |-> TRUE, skip |-> 0]

\* ------------------------------------------------------------ the functions

download_and_extract_xmm_observation(in) ==
    << Lib("XMMNewton", <<>>),
       Lib("download_data",
           <<in.observation_id, in.save_path \o "/" \o in.observation_id>>),
       Lib("tarfile.open", <<in.save_path \o "/" \o in.observation_id \o ".tar">>),
       Lib("extractall", <<in.save_path \o "/" \o in.observation_id>>),
       Lib("close", <<>>) >>

\* (variant: the export placed before cifbuild)
create_xmm_ccf_export_first(in) ==
    << Set("command", <<"export", "SAS_CCF=" \o in.ccf_directory \o "/ccf.cif">>),
       Run("command", NoCwd, TRUE),
       Set("command", <<"cifbuild", "obsid=" \o in.observation_id,
                        "odfdir=" \o in.odf_directory>>),
       Run("command", in.ccf_directory, FALSE) >>

create_xmm_ccf(in) ==
    << Set("command", <<"cifbuild", "obsid=" \o in.observation_id,
                        "odfdir=" \o in.odf_directory>>),
       Run("command", in.ccf_directory, FALSE),
       Set("command", <<"export", "SAS_CCF=" \o in.ccf_directory \o "/ccf.cif">>),
       Run("command", NoCwd, TRUE) >>

run_odfingest(in) ==
    << Set("command", <<"odfingest", in.odf_directory>>),
       Extend("command", <<"-p" \o in.cif_directory>>),
       Run("command", NoCwd, FALSE),
       Set("command", <<"export", "SAS_ODF=" \o in.odf_directory>>),
       Run("command", NoCwd, TRUE) >>

run_emchain(in) ==
    << Set("command", <<"emchain", "odfdir=" \o in.odf_directory,
                        "outdir=" \o in.em_directory>>),
       Run("command", NoCwd, FALSE),
       Set("command", <<"export", "SAS_ODF=" \o in.em_directory>>),
       Run("command", NoCwd, TRUE) >>

EpchainBase(in) ==
    <<"epchain", "pnimage=yes", "pnspec=yes", "pntrailla=yes", "pntraillae=yes",
      "odfdir=" \o in.odf_directory, "outdir=" \o in.ep_directory>>

\* (variant: the test on oot inverted)
run_epchain_inverted(in) ==
    << Set("command", EpchainBase(in)),
       If(~in.oot, 1),
       Extend("command", <<"ootcorr=yes">>),
       Run("command", NoCwd, FALSE),
       Set("command", <<"export", "SAS_ODF=" \o in.ep_directory>>),
       Run("command", NoCwd, TRUE) >>

run_epchain(in) ==
    << Set("command", EpchainBase(in)),
       If(in.oot, 1),
       Extend("command", <<"ootcorr=yes">>),
       Run("command", NoCwd, FALSE),
       Set("command", <<"export", "SAS_ODF=" \o in.ep_directory>>),
       Run("command", NoCwd, TRUE) >>

create_good_time_intervals(in) ==
    << Set("command", <<"eveselect", "table=" \o in.event_file, "withrateset=yes",
                        "rateset=" \o in.gtis_directory \o "/rate",
                        "maketimecolumn=yes", "makeratecolumn=yes",
                        "timebinsize=50">>),
       Run("command", in.odf_directory, FALSE),
       Set("command", <<"tabgtigen", "table=" \o in.gtis_directory \o "/rate",
                        "gtiset=" \o in.gtis_directory \o "/" \o in.gtiset_name,
                        "sigma=3">>),
       Set("command", <<"evselect", "table=" \o in.event_file, "withfilteredset=yes",
                        "expression=" \o in.expression,
                        "filteredset=" \o in.gtis_directory \o "/" \o in.gtiset_name>>),
       Run("command", in.odf_directory, FALSE) >>

\* The image evselect command of create_mos_images and create_pn_images.
ImageCommand(in, name, binsize, expression) ==
    <<"evselect", "table=" \o in.event_file, "withimageset=yes",
      "imageset=" \o in.images_directory \o "/" \o name,
      "xcolumn=X", "ycolumn=Y", "imagebinning=imageSize",
      "ximagebinsize=" \o binsize, "yimagebinsize=" \o binsize,
      "expression=" \o expression>>

create_mos_images(in) ==
    << Set("command", ImageCommand(in, in.imageset_name, "80", in.expression)),
       Run("command", in.odf_directory, FALSE),
       Set("command", ImageCommand(in, in.image_name, "80", in.expression)),
       Run("command", in.odf_directory, FALSE) >>

create_pn_images(in) ==
    << Set("command", ImageCommand(in, in.imageset_name, "40", in.expression)),
       Run("command", in.odf_directory, FALSE),
       Set("command", ImageCommand(in, in.image_name, "40", in.expression)),
       Run("command", in.odf_directory, FALSE),
       If(in.oot_flag, 5),
       Set("command", ImageCommand(in, in.oot_imageset_name, "40", "FLAG==0")),
       Set("farith_command",
           <<"farith", in.images_directory \o "/" \o in.oot_imageset_name,
             "0.063 PN_OoT_image_rescaled.fits MUL">>),
       Run("farith_command", in.odf_directory, FALSE),
       Set("farith_command",
           <<"farith", in.images_directory \o "/" \o in.oot_imageset_name,
             "PN_OoT_image_rescaled image_ot_sub.fits SUB">>),
       Run("farith_command", in.odf_directory, FALSE) >>

Functions ==
    { "download_and_extract_xmm_observation", "create_xmm_ccf", "run_odfingest",
      "run_emchain", "run_epchain", "create_good_time_intervals",
      "create_mos_images", "create_pn_images" }

Body(call) ==
    CASE call.fn = "download_and_extract_xmm_observation" ->
             download_and_extract_xmm_observation(Args(call))
      [] call.fn = "create_xmm_ccf" -> create_xmm_ccf(Args(call))
      [] call.fn = "run_odfingest" -> run_odfingest(Args(call))
      [] call.fn = "run_emchain" -> run_emchain(Args(call))
      [] call.fn = "run_epchain" -> run_epchain(Args(call))
      [] call.fn = "create_good_time_intervals" -> create_good_time_intervals(Args(call))
      [] call.fn = "create_mos_images" -> create_mos_images(Args(call))
      [] call.fn = "create_pn_images" -> create_pn_images(Args(call))

\* ------------------------------------------------------------ the semantics

\* (a list shared between calls would keep what an earlier call appended)
AssignedShared(val) ==
    IF /\ val # None
       /\ val[1] = "epchain"
       /\ \E i \in 1..Len(log) : log[i].argv = val \o <<"ootcorr=yes">>
    THEN val \o <<"ootcorr=yes">>
    ELSE val

\* A list display evaluates to a fresh list at every execution.
Assigned(val) == val

\* What Popen executes on POSIX: with shell=True and a list, the first item is
\* the command string of /bin/sh -c and the rest become $0, $1, ... of the shell.
Exec(argv, shell) == IF shell THEN <<"/bin/sh", "-c">> \o argv ELSE argv

\* os.environ of the caller after a child has exited: a child process, the
\* shell of an export included, has its own copy of the environment.
EnvAfterRun(e, child) == e

ExitCodes == {0, 1}

\* (variant: check=False)
RaisesNever(rc) == FALSE

\* check=True: CalledProcessError on a non-zero exit status.
Raises(rc) == rc # 0

\* (variant: Popen without wait)
NonBlocking == FALSE

\* subprocess.run returns only after the child has exited.
Blocking == TRUE

FreshLocals == [command |-> None, farith_command |-> None]

InCall == status = "run" /\ ci <= Len(script) /\ pc >= 1 /\ phase = "exec"
AtStmt == InCall /\ pc <= Len(Body(script[ci]))
Stmt == Body(script[ci])[pc]

\* ---------------------------------------------------------------- actions

\* The caller makes its next call.
Enter ==
    /\ status = "run" /\ ci <= Len(script) /\ pc = 0
    /\ pc' = 1
    /\ locals' = FreshLocals
    /\ UNCHANGED <<script, ci, phase, running, log, built, env, status>>

\* <var> = [...]
Assign ==
    /\ AtStmt /\ Stmt.op = "set"
    /\ locals' = [locals EXCEPT ![Stmt.var] = Assigned(Stmt.val)]
    /\ built' = Append(built, [call |-> ci, var |-> Stmt.var,
                               argv |-> Assigned(Stmt.val), runs |-> 0])
    /\ pc' = pc + 1
    /\ UNCHANGED <<script, ci, phase, running, log, env, status>>

\* <var> += [...]
AppendArgs ==
    /\ AtStmt /\ Stmt.op = "extend"
    /\ locals' = [locals EXCEPT ![Stmt.var] = @ \o Stmt.val]
    /\ built' = [built EXCEPT ![Len(built)].argv = @ \o Stmt.val]
    /\ pc' = pc + 1
    /\ UNCHANGED <<script, ci, phase, running, log, env, status>>

\* if <cond>:
Branch ==
    /\ AtStmt /\ Stmt.op = "if"
    /\ pc' = IF Stmt.cond THEN pc + 1 ELSE pc + 1 + Stmt.skip
    /\ UNCHANGED <<script, ci, phase, locals, running, log, built, env, status>>

\* The index in built of the assignment whose value variable var holds.
LastBuilt(var) ==
    CHOOSE i \in 1..Len(built) :
        /\ built[i].call = ci /\ built[i].var = var
        /\ \A j \in (i+1)..Len(built) : ~(built[j].call = ci /\ built[j].var = var)

\* subprocess.run(...): the child is started.
Spawn ==
    /\ AtStmt /\ Stmt.op = "run"
    /\ running' = running \cup
           { [call |-> ci, stmt |-> pc, kind |-> "proc",
              argv |-> locals[Stmt.var], exec |-> Exec(locals[Stmt.var], Stmt.shell),
              cwd |-> Stmt.cwd, shell |-> Stmt.shell, env |-> env] }
    /\ built' = [built EXCEPT ![LastBuilt(Stmt.var)].runs = @ + 1]
    /\ IF Blocking
          THEN phase' = "wait" /\ pc' = pc
          ELSE phase' = phase /\ pc' = pc + 1
    /\ UNCHANGED <<script, ci, locals, log, env, status>>

Finished(c, rc) ==
    [call |-> c.call, stmt |-> c.stmt, kind |-> c.kind, argv |-> c.argv,
     exec |-> c.exec, cwd |-> c.cwd, shell |-> c.shell, env |-> c.env, rc |-> rc]

Awaited(c) == phase = "wait" /\ c.call = ci /\ c.stmt = pc

\* The child exits and subprocess.run returns or raises.
Exit(c, rc) ==
    /\ running' = running \ {c}
    /\ log' = Append(log, Finished(c, rc))
    /\ env' = EnvAfterRun(env, c)
    /\ IF Awaited(c)
          THEN IF Raises(rc)
                  THEN status' = "raised" /\ phase' = "exec" /\ pc' = pc
                  ELSE status' = status /\ phase' = "exec" /\ pc' = pc + 1
          ELSE UNCHANGED <<status, phase, pc>>
    /\ UNCHANGED <<script, ci, locals, built>>

ExitOk == status = "run" /\ \E c \in running : Exit(c, 0)

ExitFail == status = "run" /\ \E c \in running : \E rc \in ExitCodes \ {0} : Exit(c, rc)

LibEntry(rc) ==
    [call |-> ci, stmt |-> pc, kind |-> "lib", argv |-> <<Stmt.var>> \o Stmt.val,
     exec |-> None, cwd |-> NoCwd, shell |-> FALSE, env |-> env, rc |-> rc]

\* A library call returns.
LibOk ==
    /\ AtStmt /\ Stmt.op = "lib"
    /\ log' = Append(log, LibEntry(0))
    /\ pc' = pc + 1
    /\ UNCHANGED <<script, ci, phase, locals, running, built, env, status>>

\* A library call raises; nothing catches the exception.
LibRaise ==
    /\ AtStmt /\ Stmt.op = "lib"
    /\ log' = Append(log, LibEntry(1))
    /\ status' = "raised"
    /\ UNCHANGED <<script, ci, pc, phase, locals, running, built, env>>

\* The function returns to the caller.
Return ==
    /\ InCall /\ pc > Len(Body(script[ci]))
    /\ ci' = ci + 1
    /\ pc' = 0
    /\ status' = IF ci + 1 > Len(script) THEN "done" ELSE "run"
    /\ UNCHANGED <<script, phase, locals, running, log, built, env>>

Next ==
    \/ Enter
    \/ Assign
    \/ AppendArgs
    \/ Branch
    \/ Spawn
    \/ ExitOk
    \/ ExitFail
    \/ LibOk
    \/ LibRaise
    \/ Return

\* ----------------------------------------------------------- specifications

\* The stages in the required order.
StageOrder ==
    << "download_and_extract_xmm_observation", "create_xmm_ccf", "run_odfingest",
       "run_emchain", "run_epchain", "create_good_time_intervals",
       "create_mos_images", "create_pn_images" >>

Pipeline(oot, oot_flag) ==
    [i \in 1..Len(StageOrder) |->
        Call(StageOrder[i], BaseInputs.odf_directory, oot, oot_flag)]

InitEnvs == [Pointers -> {Unset, "preset"}]

InitRest ==
    /\ ci = 1
    /\ pc = 0
    /\ phase = "exec"
    /\ locals = FreshLocals
    /\ running = {}
    /\ log = <<>>
    /\ built = <<>>
    /\ env \in InitEnvs
    /\ status = "run"

\* One pipeline run: the stages called in the required order.
Init ==
    /\ script \in { Pipeline(oot, oot_flag) : oot \in BOOLEAN, oot_flag \in BOOLEAN }
    /\ InitRest

Spec == Init /\ [][Next]_vars

\* The calls a free-order script draws from: every function with the default
\* inputs, the two flagged functions with the other value of their flag, and
\* run_emchain on another directory.
Calls ==
    { Call(f, BaseInputs.odf_directory, BaseInputs.oot, BaseInputs.oot_flag) :
        f \in Functions }
    \cup { Call("run_epchain", BaseInputs.odf_directory, FALSE, FALSE),
           Call("create_pn_images", BaseInputs.odf_directory, TRUE, TRUE),
           Call("run_emchain", "/data/odf2", TRUE, FALSE) }

\* Any calls in any order, repeats included.
InitAny ==
    /\ script \in UNION { [1..n -> Calls] : n \in 1..MaxCalls }
    /\ InitRest

SpecAny == InitAny /\ [][Next]_vars

\* ------------------------------------------------------------ observations

IsPrefix(s, t) == Len(s) <= Len(t) /\ \A i \in 1..Len(s) : s[i] = t[i]

Last(s) == s[Len(s)]

\* The finished invocations of call k, in order.
LogOf(k) == SelectSeq(log, LAMBDA e : e.call = k)

\* The finished external processes of call k, in order.
ProcsOf(k) == SelectSeq(log, LAMBDA e : e.call = k /\ e.kind = "proc")

\* Call k has returned to the caller.
Returned(k) == k < ci

Sig(e) == [kind |-> e.kind, argv |-> e.argv, exec |-> e.exec, cwd |-> e.cwd]

\* What call k has issued so far: finished invocations, then the running child.
Issued(k) ==
    LET done == [i \in 1..Len(LogOf(k)) |-> Sig(LogOf(k)[i])]
        live == {c \in running : c.call = k}
    IN  IF live = {} THEN done ELSE Append(done, Sig(CHOOSE c \in live : TRUE))

\* The stages that export an environment pointer: pointer, value, tool.
PointerStage(call) ==
    CASE call.fn = "create_xmm_ccf" ->
             [ptr |-> "SAS_CCF", val |-> Args(call).ccf_directory \o "/ccf.cif",
              tool |-> "cifbuild"]
      [] call.fn = "run_odfingest" ->
             [ptr |-> "SAS_ODF", val |-> Args(call).odf_directory, tool |-> "odfingest"]
      [] call.fn = "run_emchain" ->
             [ptr |-> "SAS_ODF", val |-> Args(call).em_directory, tool |-> "emchain"]
      [] call.fn = "run_epchain" ->
             [ptr |-> "SAS_ODF", val |-> Args(call).ep_directory, tool |-> "epchain"]
      [] OTHER -> [ptr |-> "", val |-> "", tool |-> ""]

SetsPointer(k) == PointerStage(script[k]).ptr # ""

\* The tool of call k has exited with status 0 (before log position n).
ToolOkBefore(k, n) ==
    \E j \in 1..(n - 1) :
        /\ log[j].call = k /\ log[j].kind = "proc" /\ ~log[j].shell
        /\ log[j].argv[1] = PointerStage(script[k]).tool
        /\ log[j].rc = 0

ToolOk(k) == ToolOkBefore(k, Len(log) + 1)

\* The export invocations (finished) that name pointer p.
ExportsOf(p) ==
    { i \in 1..Len(log) :
        /\ log[i].kind = "proc" /\ log[i].shell
        /\ SetsPointer(log[i].call)
        /\ PointerStage(script[log[i].call]).ptr = p }

\* ------------------------------------------------------------------ claims

\* C1: fail-fast without retry.  An invocation that failed (non-zero exit, or
\* a library call that raised) is the last invocation ever attempted: nothing
\* is running, the run has stopped for good, and no statement of any call is
\* attempted twice.
C1_FailFast ==
    /\ \A i \in 1..Len(log) :
           log[i].rc # 0 => i = Len(log) /\ running = {} /\ status = "raised"
    /\ \A i, j \in 1..Len(log) :
           (log[i].call = log[j].call /\ log[i].stmt = log[j].stmt) => i = j
    /\ \A c \in running : \A i \in 1..Len(log) :
           ~(log[i].call = c.call /\ log[i].stmt = c.stmt)
    /\ status = "raised" => ~ENABLED Next

\* C1 witness: cifbuild failed, with the export of its own function and six
\* later stages still ahead, after the download stage went through.
C1_Witness ==
    /\ Len(log) >= 1
    /\ Last(log).argv[1] = "cifbuild" /\ Last(log).rc # 0
    /\ \E i \in 1..Len(log) : log[i].argv[1] = "extractall" /\ log[i].rc = 0
    /\ status = "raised"

\* C2 (as stated): when every invocation succeeded and the run is done, the
\* stages ran in the declared order, and every command a stage constructed
\* was executed exactly once, in the order of construction.
C2_AllConstructedExecuted ==
    status = "done" =>
        /\ \A i, j \in 1..Len(log) : i < j => log[i].call <= log[j].call
        /\ \A k \in 1..Len(script) : LogOf(k) # <<>>
        /\ \A b \in 1..Len(built) : built[b].runs = 1
        /\ LET procs == SelectSeq(log, LAMBDA e : e.kind = "proc")
           IN  /\ Len(procs) = Len(built)
               /\ \A b \in 1..Len(built) : procs[b].argv = built[b].argv

\* C3: pointer side effects only after the tool succeeded.  A pointer of the
\* calling process holds a stage's value only if that stage's tool exited 0;
\* the export step of a stage is started only after the stage's tool exited 0;
\* and when a tool fails the environment is what it was when the tool started.
C3_PointerAfterSuccess ==
    /\ \A k \in 1..Len(script) :
           (SetsPointer(k) /\ env[PointerStage(script[k]).ptr] = PointerStage(script[k]).val)
               => ToolOk(k)
    /\ \A i \in 1..Len(log) :
           (log[i].kind = "proc" /\ log[i].shell) => ToolOkBefore(log[i].call, i)
    /\ \A c \in running : c.shell => ToolOk(c.call)
    /\ \A i \in 1..Len(log) : log[i].rc # 0 => env = log[i].env

\* C3 witness: cifbuild succeeded and its export step ran; then odfingest
\* failed, no export of SAS_ODF was started, and the environment is unchanged.
C3_Witness ==
    /\ ExportsOf("SAS_CCF") # {}
    /\ ExportsOf("SAS_ODF") = {}
    /\ Len(log) >= 1
    /\ Last(log).argv[1] = "odfingest" /\ Last(log).rc # 0
    /\ env = Last(log).env

\* C4 (as stated): right after create_xmm_ccf (run_odfingest) has returned,
\* SAS_CCF (SAS_ODF) of the calling process holds the exported value, and the
\* processes started by the next stage see it in their environment.
C4_HandOff ==
    \A k \in 1..Len(script) :
        (Returned(k) /\ script[k].fn \in {"create_xmm_ccf", "run_odfingest"}) =>
            /\ (ci = k + 1 /\ pc = 0) =>
                   env[PointerStage(script[k]).ptr] = PointerStage(script[k]).val
            /\ \A i \in 1..Len(log) :
                   (log[i].call = k + 1 /\ log[i].kind = "proc") =>
                       log[i].env[PointerStage(script[k]).ptr] = PointerStage(script[k]).val

\* C5 (as stated): each pointer is assigned by at most one stage of a run, and
\* every assignment of it carries the same value.
C5_SetOnce ==
    \A p \in Pointers :
        \A i, j \in ExportsOf(p) :
            /\ log[i].call = log[j].call
            /\ log[i].argv = log[j].argv

\* C6 (as stated): a call of create_good_time_intervals that returned has run
\* exactly three processes: the rate binning (timebinsize=50, writing
\* <gtis>/rate), then tabgtigen with sigma=3 on <gtis>/rate, then the evselect
\* that filters the event file with the caller's expression.
C6_GtiThreeSteps ==
    \A k \in 1..Len(script) :
        (Returned(k) /\ script[k].fn = "create_good_time_intervals") =>
            LET in == Args(script[k])
                t  == ProcsOf(k)
            IN  /\ Len(t) = 3
                /\ t[1].argv[4] = "rateset=" \o in.gtis_directory \o "/rate"
                /\ t[1].argv[7] = "timebinsize=50"
                /\ t[2].argv = <<"tabgtigen", "table=" \o in.gtis_directory \o "/rate",
                                 "gtiset=" \o in.gtis_directory \o "/" \o in.gtiset_name,
                                 "sigma=3">>
                /\ t[3].argv[1] = "evselect"
                /\ t[3].argv[4] = "expression=" \o in.expression
                /\ \A i \in 1..3 : t[i].rc = 0

C8_Sequential ==
    /\ Cardinality(running) <= 1
    /\ \A c \in running :
           /\ phase = "wait" /\ c.call = ci /\ c.stmt = pc
           /\ \A i \in 1..Len(log) : log[i].rc = 0
    /\ phase = "wait" => running # {}

\* C8 witness: a process is running after two earlier ones have exited.
C8_Witness == running # {} /\ Len(ProcsOf(2)) = 2 /\ ci = 3

\* C9: epchain gets 'ootcorr=yes' exactly when oot is true, as its last
\* argument; the other arguments are the same for both values of oot; and a
\* call of run_epchain that returned has run epchain exactly once.
C9_OotFlag ==
    /\ \A e \in {log[i] : i \in 1..Len(log)} \cup {Finished(c, 0) : c \in running} :
           (e.kind = "proc" /\ e.argv[1] = "epchain") =>
               LET in == Args(script[e.call])
                   base == <<"epchain", "pnimage=yes", "pnspec=yes", "pntrailla=yes",
                             "pntraillae=yes", "odfdir=" \o in.odf_directory,
                             "outdir=" \o in.ep_directory>>
               IN  /\ script[e.call].fn = "run_epchain"
                   /\ e.argv = IF in.oot THEN base \o <<"ootcorr=yes">> ELSE base
    /\ \A k \in 1..Len(script) :
           (Returned(k) /\ script[k].fn = "run_epchain") =>
               Cardinality({i \in 1..Len(log) :
                   log[i].call = k /\ log[i].argv[1] = "epchain"}) = 1

\* C9 witness: run_epchain has returned once with oot true and once with oot
\* false.
C9_Witness ==
    /\ Len(script) = 2
    /\ script[1].fn = "run_epchain" /\ Args(script[1]).oot
    /\ script[2].fn = "run_epchain" /\ ~Args(script[2]).oot
    /\ Returned(2)
    /\ Len(ProcsOf(1)[1].argv) = 8 /\ Len(ProcsOf(2)[1].argv) = 7

\* C10 (as stated): a call of create_pn_images that returned has run, with
\* oot_flag false, exactly the two image evselects (imageset, then image);
\* with oot_flag true, also an evselect that writes <images>/<oot_imageset>
\* before the first farith, and then the farith MUL followed by the farith SUB.
C10_PnImages ==
    \A k \in 1..Len(script) :
        (Returned(k) /\ script[k].fn = "create_pn_images") =>
            LET in == Args(script[k])
                t  == ProcsOf(k)
                ootset == "imageset=" \o in.images_directory \o "/" \o in.oot_imageset_name
                fariths == {i \in 1..Len(t) : t[i].argv[1] = "farith"}
            IN  /\ Len(t) >= 2
                /\ t[1].argv[1] = "evselect"
                /\ t[1].argv[4] = "imageset=" \o in.images_directory \o "/" \o in.imageset_name
                /\ t[2].argv[1] = "evselect"
                /\ t[2].argv[4] = "imageset=" \o in.images_directory \o "/" \o in.image_name
                /\ ~in.oot_flag => Len(t) = 2
                /\ in.oot_flag =>
                       /\ Cardinality(fariths) = 2
                       /\ \E m, s \in fariths :
                              /\ m < s
                              /\ t[m].argv[3] = "0.063 PN_OoT_image_rescaled.fits MUL"
                              /\ t[s].argv[3] = "PN_OoT_image_rescaled image_ot_sub.fits SUB"
                              /\ \E e \in 1..(m - 1) :
                                     t[e].argv[1] = "evselect" /\ t[e].argv[4] = ootset

====
